---- MODULE Spec2Model ----
(***************************************************************************)
(* Model of sample-plugins/hello-plugin/add_custom_section.py:             *)
(*   encode_leb128       the unsigned LEB128 encoder (a loop)              *)
(*   add_custom_section  header check, section builder and splicer         *)
(*   __main__            argument check, stdin, input file, output file    *)
(* Bytes are integers 0..255, a bytes object is a sequence of them, a str  *)
(* is a sequence of code points.                                           *)
(***************************************************************************)
EXTENDS Integers, Sequences, FiniteSets, TLC

VARIABLES
    \* encode_leb128 run as a loop
    n0, value, result, lpc, parity,
    \* one call of add_custom_section
    call_wasm, call_name, call_data, call_ret, cpc,
    \* repeated insertion, each on the previous output
    container0, cur, history,
    \* the __main__ block and its environment
    argv, stdin, stdin_errors, input_file, pc, manifest_data, wasm_bytes,
    new_wasm, output_file, events, exit_status, error

lebVars == <<n0, value, result, lpc, parity>>
callVars == <<call_wasm, call_name, call_data, call_ret, cpc>>
stackVars == <<container0, cur, history>>
mainVars == <<argv, stdin, stdin_errors, input_file, pc, manifest_data,
              wasm_bytes, new_wasm, output_file, events, exit_status, error>>
vars == <<lebVars, callVars, stackVars, mainVars>>

(***************************************************************************)
(* Bounds of the model.                                                    *)
(***************************************************************************)
\* encode_leb128 is run on every n in -MaxNeg..MaxSmall and on the values
\* within LebSpread of the group boundaries 2^7, 2^14, 2^21.
MaxSmall == 130
MaxNeg == 3
LebSpread == 1
\* Bytes of result the loop model keeps once the loop cannot end.
MaxBytes == 5
\* Lengths of the long names and payloads, around the boundary between a
\* one-byte and a two-byte varint (127/128).
LongLo == 125
LongHi == 129
\* Insertions applied one after the other.
MaxInserts == 3

(***************************************************************************)
(* Python helpers.                                                         *)
(***************************************************************************)
Min(a, b) == IF a < b THEN a ELSE b

\* s[lo:hi] of Python for 0 <= lo, hi: 0-based, half-open, clamped to len(s).
Slice(s, lo, hi) ==
    LET h == Min(hi, Len(s))
    IN  IF lo >= h THEN <<>> ELSE SubSeq(s, lo + 1, h)

\* s[lo:]
SliceFrom(s, lo) == Slice(s, lo, Len(s))

\* bytes([b]) * k
Rep(b, k) == [i \in 1..k |-> b]

(***************************************************************************)
(* encode_leb128                                                           *)
(***************************************************************************)
\* A plausible slip: the sign-aware (signed LEB128) end test, which emits one
\* more group, 0x00, when bit 6 of the last group is set.
LoopBody_Padded(v, r) ==
    LET byte0 == v % 128
        v2 == v \div 128
    IN  IF v2 = 0 /\ byte0 >= 64
        THEN [value |-> 0, result |-> r \o <<byte0 + 128, 0>>, brk |-> TRUE]
        ELSE [value |-> v2,
              result |-> Append(r, IF v2 # 0 THEN byte0 + 128 ELSE byte0),
              brk |-> v2 = 0]

\* One pass through the body of `while True` (lines 10-16): the low seven bits,
\* the arithmetic shift (Python's >> floors: -1 >> 7 = -1), the continuation
\* bit, the append, and whether the loop breaks.
LoopBody(v, r) ==
    LET byte0 == v % 128
        v2 == v \div 128
        byte == IF v2 # 0 THEN byte0 + 128 ELSE byte0
    IN  [value |-> v2, result |-> Append(r, byte), brk |-> v2 = 0]

RECURSIVE LebLoop(_, _)
LebLoop(v, r) ==
    LET s == LoopBody(v, r)
    IN  IF s.brk THEN s.result ELSE LebLoop(s.value, s.result)

\* encode_leb128(value) for value >= 0, as a function (the loop ends).
encode_leb128(v) == LebLoop(v, <<>>)

\* A standard unsigned LEB128 decoder: reads groups until a byte with the
\* high bit clear; [ok, value, used] where used is the bytes consumed.
RECURSIVE LebDecodeFrom(_, _, _, _)
LebDecodeFrom(bs, i, acc, mult) ==
    IF i > Len(bs) THEN [ok |-> FALSE, value |-> acc, used |-> i - 1]
    ELSE LET b == bs[i]
             a2 == acc + (b % 128) * mult
         IN  IF b < 128 THEN [ok |-> TRUE, value |-> a2, used |-> i]
             ELSE LebDecodeFrom(bs, i + 1, a2, mult * 128)

LebDecode(bs) == LebDecodeFrom(bs, 1, 0, 1)

(***************************************************************************)
(* encode_leb128 as a loop: one step per pass through `while True`.        *)
(***************************************************************************)
Pow128(k) == IF k = 1 THEN 128 ELSE IF k = 2 THEN 16384 ELSE 2097152

LebInputs ==
    ((0 - MaxNeg) .. MaxSmall)
        \cup { Pow128(k) + d : k \in 1..3, d \in (0 - LebSpread) .. LebSpread }

LebIdle ==
    /\ n0 = 0 /\ value = 0 /\ result = <<>> /\ lpc = "idle" /\ parity = 0

\* The call encode_leb128(n0): value is the argument, result = [] (line 8).
LebInit ==
    /\ n0 \in LebInputs
    /\ value = n0
    /\ result = <<>>
    /\ lpc = "loop"
    /\ parity = 0

\* One pass that does not break (lines 10-14, `value == 0` false at line 15).
\* Only the first MaxBytes bytes of result are kept; parity is the number of
\* passes modulo 2.
LebIter ==
    /\ UNCHANGED <<callVars, stackVars, mainVars>>
    /\ lpc = "loop"
    /\ LET s == LoopBody(value, result)
       IN  /\ ~s.brk
           /\ value' = s.value
           /\ result' = IF Len(result) < MaxBytes THEN s.result ELSE result
           /\ parity' = 1 - parity
    /\ UNCHANGED <<n0, lpc>>

\* The last pass: `value == 0` holds, break, return bytes(result) (15-17).
LebReturn ==
    /\ UNCHANGED <<callVars, stackVars, mainVars>>
    /\ lpc = "loop"
    /\ LET s == LoopBody(value, result)
       IN  /\ s.brk
           /\ value' = s.value
           /\ result' = s.result
           /\ parity' = 1 - parity
    /\ lpc' = "done"
    /\ UNCHANGED n0

LebNext == LebIter \/ LebReturn

(***************************************************************************)
(* str.encode('utf-8') and the text layer of sys.stdin.                    *)
(***************************************************************************)
\* The UTF-8 bytes of one code point; <<>> for a surrogate (U+D800..U+DFFF),
\* which str.encode('utf-8') refuses with UnicodeEncodeError.
Utf8OfCodePoint(cp) ==
    IF cp < 128 THEN <<cp>>
    ELSE IF cp < 2048 THEN <<192 + (cp \div 64), 128 + (cp % 64)>>
    ELSE IF cp >= 55296 /\ cp <= 57343 THEN <<>>
    ELSE IF cp < 65536
         THEN <<224 + (cp \div 4096), 128 + ((cp \div 64) % 64), 128 + (cp % 64)>>
    ELSE <<240 + (cp \div 262144), 128 + ((cp \div 4096) % 64),
           128 + ((cp \div 64) % 64), 128 + (cp % 64)>>

\* The encodings of str[lo..hi] one after the other (the range is halved).
RECURSIVE Utf8EncodeRange(_, _, _)
Utf8EncodeRange(str, lo, hi) ==
    IF lo > hi THEN <<>>
    ELSE IF lo = hi THEN Utf8OfCodePoint(str[lo])
    ELSE LET mid == (lo + hi) \div 2
         IN  Utf8EncodeRange(str, lo, mid) \o Utf8EncodeRange(str, mid + 1, hi)

\* str.encode('utf-8'): [ok, bytes]; ok = FALSE is UnicodeEncodeError.
Utf8Encode(str) ==
    IF \E i \in 1..Len(str) : Utf8OfCodePoint(str[i]) = <<>>
    THEN [ok |-> FALSE, bytes |-> <<>>]
    ELSE [ok |-> TRUE, bytes |-> Utf8EncodeRange(str, 1, Len(str))]

IsCont(bs, i) == i <= Len(bs) /\ bs[i] >= 128 /\ bs[i] <= 191

\* The strict UTF-8 decoder at position i: [n, cp], n the bytes used, n = 0
\* when the bytes at i are no well-formed sequence.
Utf8DecodeAt(bs, i) ==
    LET b == bs[i]
        bad == [n |-> 0, cp |-> 0]
        c(k) == bs[i + k] % 64
    IN  IF b < 128 THEN [n |-> 1, cp |-> b]
        ELSE IF b >= 194 /\ b <= 223
             THEN IF IsCont(bs, i + 1)
                  THEN [n |-> 2, cp |-> (b % 32) * 64 + c(1)]
                  ELSE bad
        ELSE IF b >= 224 /\ b <= 239
             THEN IF /\ IsCont(bs, i + 1) /\ IsCont(bs, i + 2)
                     /\ (b = 224 => bs[i + 1] >= 160)
                     /\ (b = 237 => bs[i + 1] <= 159)
                  THEN [n |-> 3, cp |-> (b % 16) * 4096 + c(1) * 64 + c(2)]
                  ELSE bad
        ELSE IF b >= 240 /\ b <= 244
             THEN IF /\ IsCont(bs, i + 1) /\ IsCont(bs, i + 2) /\ IsCont(bs, i + 3)
                     /\ (b = 240 => bs[i + 1] >= 144)
                     /\ (b = 244 => bs[i + 1] <= 143)
                  THEN [n |-> 4,
                        cp |-> (b % 8) * 262144 + c(1) * 4096 + c(2) * 64 + c(3)]
                  ELSE bad
        ELSE bad

\* bytes -> str under the stream's error handler: "strict" raises
\* UnicodeDecodeError on a malformed byte, "surrogateescape" turns it into
\* the lone surrogate U+DC00+byte and goes on with the next byte.
\* Utf8DecodeRun decodes at most `left` characters from position i and says
\* where it stopped; Utf8DecodeFrom goes through the bytes run after run
\* (the runs only keep the evaluation shallow).
RECURSIVE Utf8DecodeRun(_, _, _, _)
Utf8DecodeRun(bs, i, left, errors) ==
    IF i > Len(bs) \/ left = 0 THEN [ok |-> TRUE, str |-> <<>>, next |-> i]
    ELSE LET d == Utf8DecodeAt(bs, i)
         IN  IF d.n = 0 /\ errors = "strict"
             THEN [ok |-> FALSE, str |-> <<>>, next |-> i]
             ELSE LET cp == IF d.n > 0 THEN d.cp ELSE 56320 + bs[i]
                      step == IF d.n > 0 THEN d.n ELSE 1
                      r == Utf8DecodeRun(bs, i + step, left - 1, errors)
                  IN  [ok |-> r.ok, str |-> <<cp>> \o r.str, next |-> r.next]

RECURSIVE Utf8DecodeFrom(_, _, _)
Utf8DecodeFrom(bs, i, errors) ==
    IF i > Len(bs) THEN [ok |-> TRUE, str |-> <<>>]
    ELSE LET run == Utf8DecodeRun(bs, i, 16, errors)
         IN  IF ~run.ok THEN [ok |-> FALSE, str |-> <<>>]
             ELSE LET rest == Utf8DecodeFrom(bs, run.next, errors)
                  IN  IF ~rest.ok THEN [ok |-> FALSE, str |-> <<>>]
                      ELSE [ok |-> TRUE, str |-> run.str \o rest.str]

Utf8Decode(bs, errors) == Utf8DecodeFrom(bs, 1, errors)

(***************************************************************************)
(* add_custom_section                                                      *)
(***************************************************************************)
\* b'\x00asm'
Magic == <<0, 97, 115, 109>>

\* A plausible slip: the section length counts the payload only.
SectionRecord_PayloadLength(name_bytes, data) ==
    <<0>> \o encode_leb128(Len(data))
          \o (encode_leb128(Len(name_bytes)) \o name_bytes \o data)

\* A plausible slip: the name is written without its length prefix.
SectionRecord_NoNameLength(name_bytes, data) ==
    <<0>> \o encode_leb128(Len(name_bytes \o data)) \o (name_bytes \o data)

\* custom_section of lines 30-33: the tag, the varint length of the content,
\* the content (varint name length, name bytes, payload).
SectionRecord(name_bytes, data) ==
    LET section_content == encode_leb128(Len(name_bytes)) \o name_bytes \o data
    IN  <<0>> \o encode_leb128(Len(section_content)) \o section_content

\* A plausible slip: the body is taken from the offset after the magic.
Splice_BodyFromMagic(w, custom_section) ==
    Slice(w, 0, 4) \o Slice(w, 4, 8) \o custom_section \o SliceFrom(w, 4)

\* A plausible slip: the section is appended at the end of the container.
Splice_Append(w, custom_section) ==
    Slice(w, 0, 4) \o Slice(w, 4, 8) \o SliceFrom(w, 8) \o custom_section

\* A plausible slip: the version field is rewritten as version 1.
Splice_VersionOne(w, custom_section) ==
    Slice(w, 0, 4) \o <<1, 0, 0, 0>> \o custom_section \o SliceFrom(w, 8)

\* Line 36: magic + version + custom_section + wasm_bytes[8:].
Splice(w, custom_section) ==
    Slice(w, 0, 4) \o Slice(w, 4, 8) \o custom_section \o SliceFrom(w, 8)

\* A plausible slip: the magic is compared only when four bytes are there.
add_custom_section_ShortUnchecked(w, name, data) ==
    IF Len(w) >= 4 /\ Slice(w, 0, 4) # Magic
    THEN [status |-> "ValueError", bytes |-> <<>>]
    ELSE LET enc == Utf8Encode(name)
         IN  IF ~enc.ok THEN [status |-> "UnicodeEncodeError", bytes |-> <<>>]
             ELSE [status |-> "ok",
                   bytes |-> Splice(w, SectionRecord(enc.bytes, data))]

\* add_custom_section(wasm_bytes, name, data): [status, bytes]; status is
\* "ok", "ValueError" (line 26) or "UnicodeEncodeError" (line 29).
add_custom_section(w, name, data) ==
    IF Slice(w, 0, 4) # Magic THEN [status |-> "ValueError", bytes |-> <<>>]
    ELSE LET enc == Utf8Encode(name)
         IN  IF ~enc.ok THEN [status |-> "UnicodeEncodeError", bytes |-> <<>>]
             ELSE [status |-> "ok",
                   bytes |-> Splice(w, SectionRecord(enc.bytes, data))]

(***************************************************************************)
(* A compliant reader of one section at a 0-based offset of a container.   *)
(***************************************************************************)
\* Reads the tag, the varint section length, that many bytes of content,
\* and in the content the varint name length, the name, and the rest as the
\* payload. next is the offset of the byte after the section.
ReadSection(bs, off) ==
    LET bad == [ok |-> FALSE, tag |-> 0, size |-> 0, name |-> <<>>,
                payload |-> <<>>, next |-> off]
    IN  IF off >= Len(bs) THEN bad
        ELSE LET sz == LebDecode(SliceFrom(bs, off + 1))
             IN  IF ~sz.ok \/ off + 1 + sz.used + sz.value > Len(bs) THEN bad
                 ELSE LET start == off + 1 + sz.used
                          content == Slice(bs, start, start + sz.value)
                          nl == LebDecode(content)
                      IN  IF ~nl.ok \/ nl.used + nl.value > Len(content) THEN bad
                          ELSE [ok |-> TRUE, tag |-> bs[off + 1], size |-> sz.value,
                                name |-> Slice(content, nl.used, nl.used + nl.value),
                                payload |-> SliceFrom(content, nl.used + nl.value),
                                next |-> start + sz.value]

(***************************************************************************)
(* Inputs.                                                                 *)
(***************************************************************************)
Prefixes(w) == { Slice(w, 0, k) : k \in 0..Len(w) }

\* Well-formed modules: the header alone (versions 1 and 2), a module
\* with a type section, a module that already holds a custom section "a".
Modules ==
    { Magic \o <<1, 0, 0, 0>>,
      Magic \o <<2, 0, 0, 0>>,
      Magic \o <<1, 0, 0, 0>> \o <<1, 4, 1, 96, 0, 0>>,
      Magic \o <<13, 0, 0, 0>> \o <<0, 2, 1, 97>> }

\* Files that are not modules: a wrong last magic byte, an ELF header, the
\* magic at offset 1.
NotModules ==
    { <<0, 97, 115, 110, 1, 0, 0, 0>>,
      <<127, 69, 76, 70, 1, 0, 0, 0>>,
      <<0, 0, 97, 115, 109, 1, 0, 0, 0>> }

\* Every module, every truncation of one (the empty file included), and
\* the files that are not modules.
Containers == (UNION { Prefixes(w) : w \in Modules }) \cup NotModules

LongLens == LongLo..LongHi

\* str values: empty, ASCII, 2-, 3- and 4-byte code points, a mix, "hello",
\* a lone surrogate (what a non-UTF-8 argument byte becomes in sys.argv),
\* and long names.
Names ==
    { <<>>, <<97>>, <<233>>, <<8364>>, <<128512>>, <<97, 233>>,
      <<104, 101, 108, 108, 111>>, <<56575>> }
        \cup { Rep(97, k) : k \in LongLens }

\* bytes values: empty, 0x00, 0xFF, "Bonjour", a continuation-looking pair,
\* and long payloads.
Payloads ==
    { <<>>, <<0>>, <<255>>, <<66, 111, 110, 106, 111, 117, 114>>, <<128, 0>> }
        \cup { Rep(42, k) : k \in LongLens }

(***************************************************************************)
(* One call add_custom_section(call_wasm, call_name, call_data).           *)
(***************************************************************************)
NoRet == [status |-> "none", bytes |-> <<>>]

CallIdle ==
    /\ call_wasm = <<>> /\ call_name = <<>> /\ call_data = <<>>
    /\ call_ret = NoRet /\ cpc = "idle"

CallInit ==
    /\ call_wasm \in Containers
    /\ call_name \in Names
    /\ call_data \in Payloads
    /\ call_ret = NoRet
    /\ cpc = "call"

\* The call returns its bytes.
CallReturn ==
    /\ UNCHANGED <<lebVars, stackVars, mainVars>>
    /\ cpc = "call"
    /\ add_custom_section(call_wasm, call_name, call_data).status = "ok"
    /\ call_ret' = add_custom_section(call_wasm, call_name, call_data)
    /\ cpc' = "returned"
    /\ UNCHANGED <<call_wasm, call_name, call_data>>

\* The call raises (line 26, or str.encode at line 29).
CallRaise ==
    /\ UNCHANGED <<lebVars, stackVars, mainVars>>
    /\ cpc = "call"
    /\ add_custom_section(call_wasm, call_name, call_data).status # "ok"
    /\ call_ret' = add_custom_section(call_wasm, call_name, call_data)
    /\ cpc' = "raised"
    /\ UNCHANGED <<call_wasm, call_name, call_data>>

CallNext == CallReturn \/ CallRaise

(***************************************************************************)
(* Repeated insertion: each call is applied to the previous output.        *)
(***************************************************************************)
StackContainers ==
    Modules \cup { Slice(Magic \o <<1, 0, 0, 0>>, 0, 6), <<127, 69, 76, 70, 1, 0, 0, 0>> }

StackNames == { <<97>>, <<233>>, <<56575>> }

StackPayloads == { <<>>, <<255>> }

StackIdle ==
    /\ container0 = <<>> /\ cur = <<>> /\ history = <<>>

StackInit ==
    /\ container0 \in StackContainers
    /\ cur = container0
    /\ history = <<>>
    /\ call_wasm = <<>> /\ call_name = <<>> /\ call_data = <<>>
    /\ call_ret = NoRet /\ cpc = "idle"

\* One more invocation on the current container; history holds the
\* (name, payload) of the calls that returned, oldest first.
Insert ==
    /\ UNCHANGED <<lebVars, mainVars>>
    /\ Len(history) < MaxInserts
    /\ \E nm \in StackNames, d \in StackPayloads :
          LET r == add_custom_section(cur, nm, d)
          IN  /\ call_wasm' = cur
              /\ call_name' = nm
              /\ call_data' = d
              /\ call_ret' = r
              /\ cpc' = IF r.status = "ok" THEN "returned" ELSE "raised"
              /\ cur' = IF r.status = "ok" THEN r.bytes ELSE cur
              /\ history' = IF r.status = "ok"
                            THEN Append(history, [name |-> nm, data |-> d])
                            ELSE history
    /\ UNCHANGED container0

StackNext == Insert

(***************************************************************************)
(* The __main__ block. sys.argv is a sequence of str (argv[1] here is      *)
(* sys.argv[0]); events is the order of the program's I/O.                 *)
(***************************************************************************)
DashS == <<45, 115>>
DashO == <<45, 111>>
ProgArg == <<112>>
InArg == <<105>>
OutArg == <<111>>
ExtraArg == <<120>>

MainNames == { <<97>>, <<233>>, <<56575>> }

ArgvTemplates ==
    { <<ProgArg, InArg, f2, nm, f4, OutArg, ExtraArg>> :
        f2 \in {DashS, DashO}, nm \in MainNames, f4 \in {DashO, DashS} }

\* Command lines of 0 to 6 arguments after the program name.
Argvs == UNION { { Slice(t, 0, k) : k \in 1..Len(t) } : t \in ArgvTemplates }

\* Standard input: empty, "{}", a 2-byte character, CR LF, a byte that is
\* not UTF-8, a truncated 2-byte character.
Stdins == { <<>>, <<123, 125>>, <<195, 169>>, <<13, 10>>, <<255>>, <<97, 195>> }

NoFile == [exists |-> FALSE, bytes |-> <<>>]
File(bs) == [exists |-> TRUE, bytes |-> bs]

InputFiles ==
    { NoFile } \cup
    { File(w) : w \in { <<>>, <<0, 97, 115>>, Magic, Slice(Magic \o <<1, 0, 0, 0>>, 0, 6),
                        Magic \o <<1, 0, 0, 0>>,
                        Magic \o <<1, 0, 0, 0>> \o <<1, 4, 1, 96, 0, 0>>,
                        <<127, 69, 76, 70, 1, 0, 0, 0>> } }

\* The output path before the run: absent, or an older file.
OutputFiles ==
    { [exists |-> FALSE, bytes |-> <<>>, truncated |-> FALSE],
      [exists |-> TRUE, bytes |-> <<9, 9>>, truncated |-> FALSE] }

NoError == [type |-> "none", line |-> 0]

MainIdle ==
    /\ argv = <<>> /\ stdin = <<>> /\ stdin_errors = "strict"
    /\ input_file = NoFile /\ pc = "idle" /\ manifest_data = <<>>
    /\ wasm_bytes = <<>> /\ new_wasm = <<>>
    /\ output_file = [exists |-> FALSE, bytes |-> <<>>, truncated |-> FALSE]
    /\ events = <<>> /\ exit_status = -1 /\ error = NoError

MainInit ==
    /\ argv \in Argvs
    /\ stdin \in Stdins
    /\ stdin_errors \in {"strict", "surrogateescape"}
    /\ input_file \in InputFiles
    /\ output_file \in OutputFiles
    /\ pc = "args"
    /\ manifest_data = <<>> /\ wasm_bytes = <<>> /\ new_wasm = <<>>
    /\ events = <<>> /\ exit_status = -1 /\ error = NoError

\* A plausible slip: only the argument count is checked.
UsageMismatch_CountOnly(av) == Len(av) # 6

\* Line 39: len(sys.argv) != 6 or sys.argv[2] != '-s' or sys.argv[4] != '-o'.
\* `or` evaluates its right operand only when the left one is false.
UsageMismatch(av) ==
    IF Len(av) # 6 THEN TRUE
    ELSE IF av[3] # DashS THEN TRUE
    ELSE av[5] # DashO

\* sys.argv[3]
section_name == argv[4]

Raise(type, line) ==
    /\ error' = [type |-> type, line |-> line]
    /\ exit_status' = 1
    /\ pc' = "exit"

\* Lines 39-41: the usage message, sys.exit(1).
UsageExit ==
    /\ UNCHANGED <<lebVars, callVars, stackVars>>
    /\ pc = "args"
    /\ UsageMismatch(argv)
    /\ events' = Append(events, "print_usage")
    /\ Raise("SystemExit", 41)
    /\ UNCHANGED <<argv, stdin, stdin_errors, input_file, manifest_data,
                   wasm_bytes, new_wasm, output_file>>

\* Lines 43-45.
ArgsOk ==
    /\ UNCHANGED <<lebVars, callVars, stackVars>>
    /\ pc = "args"
    /\ ~UsageMismatch(argv)
    /\ pc' = "stdin"
    /\ UNCHANGED <<argv, stdin, stdin_errors, input_file, manifest_data,
                   wasm_bytes, new_wasm, output_file, events, exit_status, error>>

\* Line 48: sys.stdin.read().encode('utf-8'). The text layer decodes the
\* bytes of standard input (UTF-8; newline='\n', no translation) under the
\* stream's error handler, and the str is encoded again.
StdinPayload(bs, errors) ==
    LET d == Utf8Decode(bs, errors)
        e == Utf8Encode(d.str)
    IN  IF ~d.ok THEN [status |-> "UnicodeDecodeError", line |-> 48, bytes |-> <<>>]
        ELSE IF ~e.ok THEN [status |-> "UnicodeEncodeError", line |-> 48, bytes |-> <<>>]
        ELSE [status |-> "ok", line |-> 48, bytes |-> e.bytes]

ReadStdin ==
    /\ UNCHANGED <<lebVars, callVars, stackVars>>
    /\ pc = "stdin"
    /\ StdinPayload(stdin, stdin_errors).status = "ok"
    /\ manifest_data' = StdinPayload(stdin, stdin_errors).bytes
    /\ events' = Append(events, "read_stdin")
    /\ pc' = "input"
    /\ UNCHANGED <<argv, stdin, stdin_errors, input_file, wasm_bytes, new_wasm,
                   output_file, exit_status, error>>

ReadStdinRaises ==
    /\ UNCHANGED <<lebVars, callVars, stackVars>>
    /\ pc = "stdin"
    /\ StdinPayload(stdin, stdin_errors).status # "ok"
    /\ events' = Append(events, "read_stdin")
    /\ Raise(StdinPayload(stdin, stdin_errors).status, 48)
    /\ UNCHANGED <<argv, stdin, stdin_errors, input_file, manifest_data,
                   wasm_bytes, new_wasm, output_file>>

\* Lines 51-52.
ReadInput ==
    /\ UNCHANGED <<lebVars, callVars, stackVars>>
    /\ pc = "input"
    /\ input_file.exists
    /\ wasm_bytes' = input_file.bytes
    /\ events' = Append(events, "read_input")
    /\ pc' = "add"
    /\ UNCHANGED <<argv, stdin, stdin_errors, input_file, manifest_data, new_wasm,
                   output_file, exit_status, error>>

\* open(input_file, 'rb') raises.
ReadInputRaises ==
    /\ UNCHANGED <<lebVars, callVars, stackVars>>
    /\ pc = "input"
    /\ ~input_file.exists
    /\ events' = Append(events, "open_input_failed")
    /\ Raise("FileNotFoundError", 51)
    /\ UNCHANGED <<argv, stdin, stdin_errors, input_file, manifest_data,
                   wasm_bytes, new_wasm, output_file>>

\* Line 55.
AddSection ==
    /\ UNCHANGED <<lebVars, callVars, stackVars>>
    /\ pc = "add"
    /\ add_custom_section(wasm_bytes, section_name, manifest_data).status = "ok"
    /\ new_wasm' = add_custom_section(wasm_bytes, section_name, manifest_data).bytes
    /\ pc' = "output"
    /\ UNCHANGED <<argv, stdin, stdin_errors, input_file, manifest_data, wasm_bytes,
                   output_file, events, exit_status, error>>

AddSectionRaises ==
    /\ UNCHANGED <<lebVars, callVars, stackVars>>
    /\ pc = "add"
    /\ LET r == add_custom_section(wasm_bytes, section_name, manifest_data)
       IN  /\ r.status # "ok"
           /\ Raise(r.status, IF r.status = "ValueError" THEN 26 ELSE 29)
    /\ UNCHANGED <<argv, stdin, stdin_errors, input_file, manifest_data,
                   wasm_bytes, new_wasm, output_file, events>>

\* Lines 58-59: open(output_file, 'wb') creates or truncates, then the write.
WriteOutput ==
    /\ UNCHANGED <<lebVars, callVars, stackVars>>
    /\ pc = "output"
    /\ output_file' = [exists |-> TRUE, bytes |-> new_wasm, truncated |-> TRUE]
    /\ events' = events \o <<"open_output", "write_output">>
    /\ pc' = "confirm"
    /\ UNCHANGED <<argv, stdin, stdin_errors, input_file, manifest_data, wasm_bytes,
                   new_wasm, exit_status, error>>

\* open(output_file, 'wb') raises (no permission, no such directory).
WriteOutputRaises ==
    /\ UNCHANGED <<lebVars, callVars, stackVars>>
    /\ pc = "output"
    /\ events' = Append(events, "open_output_failed")
    /\ Raise("OSError", 58)
    /\ UNCHANGED <<argv, stdin, stdin_errors, input_file, manifest_data,
                   wasm_bytes, new_wasm, output_file>>

\* Line 61, then the script ends: exit status 0.
PrintConfirm ==
    /\ UNCHANGED <<lebVars, callVars, stackVars>>
    /\ pc = "confirm"
    /\ events' = Append(events, "print_confirm")
    /\ exit_status' = 0
    /\ pc' = "exit"
    /\ UNCHANGED <<argv, stdin, stdin_errors, input_file, manifest_data, wasm_bytes,
                   new_wasm, output_file, error>>

MainNext ==
    \/ UsageExit \/ ArgsOk
    \/ ReadStdin \/ ReadStdinRaises
    \/ ReadInput \/ ReadInputRaises
    \/ AddSection \/ AddSectionRaises
    \/ WriteOutput \/ WriteOutputRaises
    \/ PrintConfirm

(***************************************************************************)
(* Specifications.                                                         *)
(***************************************************************************)
\* The program run from the command line.
Init == MainInit /\ LebIdle /\ CallIdle /\ StackIdle
Next == MainNext
Spec == Init /\ [][Next]_vars

\* encode_leb128 on its own; a running loop takes its next pass.
LebSpecInit == LebInit /\ CallIdle /\ StackIdle /\ MainIdle
LebSpec == LebSpecInit /\ [][LebNext]_vars /\ WF_vars(LebNext)

\* add_custom_section on its own.
CallSpecInit == CallInit /\ LebIdle /\ StackIdle /\ MainIdle
CallSpec == CallSpecInit /\ [][CallNext]_vars

\* add_custom_section applied again and again.
StackSpecInit == StackInit /\ LebIdle /\ MainIdle
StackSpec == StackSpecInit /\ [][StackNext]_vars

(***************************************************************************)
(* Properties of encode_leb128 (LebSpec).                                  *)
(***************************************************************************)
\* The least k >= 1 with n < 128^k, for the n of LebInputs.
MinGroups(n) ==
    IF n < 128 THEN 1 ELSE IF n < 16384 THEN 2 ELSE IF n < 2097152 THEN 3 ELSE 4

\* C6: for n >= 0 the returned bytes are non-empty, every byte but the last
\* has the high bit set and the last has it clear, a standard LEB128 decoder
\* reads n back from all of them, and the length is minimal (the last byte
\* is non-zero for n > 0, the encoding of 0 is the single byte 0x00).
C6_VarintRoundTripMinimal ==
    (lpc = "done" /\ n0 >= 0) =>
        /\ Len(result) >= 1
        /\ \A i \in 1..(Len(result) - 1) : result[i] >= 128 /\ result[i] <= 255
        /\ result[Len(result)] >= 0 /\ result[Len(result)] < 128
        /\ LebDecode(result) = [ok |-> TRUE, value |-> n0, used |-> Len(result)]
        /\ Len(result) = MinGroups(n0)
        /\ (n0 > 0 => result[Len(result)] # 0)
        /\ (n0 = 0 => result = <<0>>)
        /\ result = encode_leb128(n0)

C6_Witness == lpc = "done" /\ n0 = 16384 /\ result = <<128, 128, 1>>

CallNameBytes == Utf8Encode(call_name).bytes

\* The bytes of the input's header that exist: 8 for a whole module.
CallHeaderLen == Len(Slice(call_wasm, 0, 8))

\* C1: when the input starts with the magic, the output from offset
\* 8 + len(new section record) to its end is the input from offset 8 to its
\* end.
C1_TailPreserved ==
    (cpc = "returned" /\ Slice(call_wasm, 0, 4) = Magic) =>
        SliceFrom(call_ret.bytes, 8 + Len(SectionRecord(CallNameBytes, call_data)))
            = SliceFrom(call_wasm, 8)

C1_Witness ==
    /\ cpc = "returned"
    /\ SliceFrom(call_wasm, 8) = <<1, 4, 1, 96, 0, 0>>
    /\ call_name = <<8364>>
    /\ Len(call_data) = 129

\* C2 as stated: whenever the input starts with the magic, whatever its
\* length, bytes [0,8) of the output are bytes [0,8) of the input.
C2_HeaderPreservedAnyLength ==
    (cpc = "returned" /\ Slice(call_wasm, 0, 4) = Magic) =>
        Slice(call_ret.bytes, 0, 8) = Slice(call_wasm, 0, 8)

\* C2 amended: when the input starts with the magic and holds at least 8
\* bytes, bytes [0,8) of the output are bytes [0,8) of the input, whatever
\* the version field is.
C2_HeaderPreserved ==
    (cpc = "returned" /\ Slice(call_wasm, 0, 4) = Magic /\ Len(call_wasm) >= 8) =>
        Slice(call_ret.bytes, 0, 8) = Slice(call_wasm, 0, 8)

C2_Witness ==
    /\ cpc = "returned"
    /\ Slice(call_wasm, 0, 8) = Magic \o <<13, 0, 0, 0>>
    /\ Slice(call_ret.bytes, 4, 8) = <<13, 0, 0, 0>>

\* C3: in the inserted record the first byte is the tag 0x00, and the varint
\* after it decodes to the byte count of the content, which is
\* len(varint(len(name_bytes))) + len(name_bytes) + len(payload) and ends
\* where the original body resumes.
C3_SectionSelfConsistent ==
    cpc = "returned" =>
        LET out == call_ret.bytes
            sz == LebDecode(SliceFrom(out, CallHeaderLen + 1))
        IN  /\ out[CallHeaderLen + 1] = 0
            /\ sz.ok
            /\ sz.value = Len(encode_leb128(Len(CallNameBytes)))
                            + Len(CallNameBytes) + Len(call_data)
            /\ CallHeaderLen + 1 + sz.used + sz.value + Len(SliceFrom(call_wasm, 8))
                 = Len(out)

\* The scenario of the specification: "hello" and "Bonjour" into the bare
\* version-1 header give the 23 bytes below (content length 13 = 0x0D).
C3_Witness ==
    /\ cpc = "returned"
    /\ call_wasm = Magic \o <<1, 0, 0, 0>>
    /\ call_name = <<104, 101, 108, 108, 111>>
    /\ call_data = <<66, 111, 110, 106, 111, 117, 114>>
    /\ call_ret.bytes = Magic \o <<1, 0, 0, 0>> \o <<0, 13, 5>>
                          \o <<104, 101, 108, 108, 111>>
                          \o <<66, 111, 110, 106, 111, 117, 114>>

\* C4: a compliant reader of the inserted record (tag, varint section
\* length, varint name length, name, rest of the section) gets the name bytes
\* and the payload bytes back, and the name bytes decode to the name.
C4_SectionRoundTrip ==
    cpc = "returned" =>
        LET r == ReadSection(call_ret.bytes, CallHeaderLen)
        IN  /\ r.ok
            /\ r.tag = 0
            /\ r.name = CallNameBytes
            /\ r.payload = call_data
            /\ Utf8Decode(r.name, "strict") = [ok |-> TRUE, str |-> call_name]
            /\ SliceFrom(call_ret.bytes, r.next) = SliceFrom(call_wasm, 8)

C4_Witness ==
    /\ cpc = "returned"
    /\ call_name = <<97, 233>>
    /\ call_data = <<128, 0>>
    /\ Len(call_wasm) > 8

(***************************************************************************)
(* Properties of repeated insertion (StackSpec).                           *)
(***************************************************************************)
\* The records of the calls of h, the newest first.
RECURSIVE Stacked(_)
Stacked(h) ==
    IF h = <<>> THEN <<>>
    ELSE SectionRecord(Utf8Encode(h[Len(h)].name).bytes, h[Len(h)].data)
            \o Stacked(SubSeq(h, 1, Len(h) - 1))

\* C10: on a container of at least 8 bytes that starts with the magic, the
\* current output is C[0:8], the records newest first, C[8:]; the newest
\* record is the section read at offset 8; and a call is rejected only
\* because its name cannot be encoded, never because of what the container
\* already holds.
C10_NewestFirstStack ==
    (Slice(container0, 0, 4) = Magic /\ Len(container0) >= 8) =>
        /\ cur = Slice(container0, 0, 8) \o Stacked(history) \o SliceFrom(container0, 8)
        /\ history # <<>> =>
              LET r == ReadSection(cur, 8)
                  newest == history[Len(history)]
              IN  /\ r.ok /\ r.tag = 0
                  /\ r.name = Utf8Encode(newest.name).bytes
                  /\ r.payload = newest.data
        /\ cpc = "raised" => ~Utf8Encode(call_name).ok

\* Three insertions into the module that already holds a section "a", the
\* first two under that same name.
C10_Witness ==
    /\ container0 = Magic \o <<13, 0, 0, 0>> \o <<0, 2, 1, 97>>
    /\ Len(history) = 3
    /\ history[1].name = <<97>>
    /\ history[2].name = <<97>>
    /\ history[3].data = <<255>>

(***************************************************************************)
(* Properties of the program run (Spec).                                   *)
(***************************************************************************)
Happened(e) == \E i \in 1..Len(events) : events[i] = e

\* The command line has the shape <input> -s <name> -o <output>.
ShapeOk == Len(argv) = 6 /\ argv[3] = DashS /\ argv[5] = DashO

\* C5: when the input file does not start with the magic (shorter files
\* included), no run opens, creates, truncates or writes the output path,
\* prints the confirmation or exits with status 0; and once that input has
\* been read, the run can only end with the ValueError of line 26 and
\* status 1.
C5_RejectionWritesNothing ==
    /\ (input_file.exists /\ Slice(input_file.bytes, 0, 4) # Magic) =>
          /\ output_file \in OutputFiles
          /\ ~Happened("open_output") /\ ~Happened("open_output_failed")
          /\ ~Happened("write_output") /\ ~Happened("print_confirm")
          /\ new_wasm = <<>>
          /\ exit_status # 0
    /\ (Happened("read_input") /\ Slice(wasm_bytes, 0, 4) # Magic) =>
          /\ pc \in {"add", "exit"}
          /\ pc = "exit" =>
                (error = [type |-> "ValueError", line |-> 26] /\ exit_status = 1)

C5_Witness ==
    /\ pc = "exit"
    /\ error.type = "ValueError"
    /\ wasm_bytes = <<0, 97, 115>>
    /\ output_file.exists

\* C7: once standard input has been read, the payload is the bytes of
\* standard input, whatever they are (no decoding error ends the run), and
\* standard input is read before the input container.
C7_PayloadIsRawStdin ==
    /\ Happened("read_stdin") => (error.line # 48 /\ manifest_data = stdin)
    /\ Happened("read_input") => Happened("read_stdin")

\* C8: when the command line does not have the shape, the only thing the
\* program does is print the usage message and exit with status 1: standard
\* input and the input file are not read and the output path is not touched.
C8_UsageBeforeAnyIO ==
    ~ShapeOk =>
        /\ pc \in {"args", "exit"}
        /\ events \in {<<>>, <<"print_usage">>}
        /\ pc = "exit" => (events = <<"print_usage">> /\ exit_status = 1)
        /\ manifest_data = <<>> /\ wasm_bytes = <<>> /\ new_wasm = <<>>
        /\ output_file \in OutputFiles

C8_Witness ==
    /\ pc = "exit"
    /\ Len(argv) = 6
    /\ argv[3] = DashO
    /\ events = <<"print_usage">>
    /\ exit_status = 1

====
